---------------------------- MODULE Spec2Model ----------------------------
(***************************************************************************)
(* A model of the Hershey font parser (src/src/lib.rs).                    *)
(*                                                                         *)
(* Text is a sequence of character codes; every character of the model is  *)
(* ASCII, so a byte offset (str::len, &s[a..b]) is a character offset.     *)
(*                                                                         *)
(* A usize value u is represented by the integer s with u = s mod 2^w      *)
(* that lies in [-2^(w-1), 2^(w-1)) (its two's-complement reading, w the   *)
(* pointer width).  Every usize of the program is within a few thousand of *)
(* 0 or of 2^w, so s is a small integer, a wrapped result is the plain     *)
(* integer result, and an operation overflows exactly when stated at the   *)
(* operators MulOverflows, AddOverflows and SubOverflows below.            *)
(*                                                                         *)
(* Rust panics on integer overflow when the build has overflow checks on   *)
(* (the default of a debug build) and wraps when it has them off (the      *)
(* default of a release build): overflow_checks is chosen by Init.         *)
(***************************************************************************)
EXTENDS Integers, Sequences, FiniteSets

\* Longest window list of a generated glyph line.
MaxPairs == 3
\* Most lines (empty ones counted) of a generated font source.
MaxLines == 3

I32_MAX == 2147483647
I32_MIN == -2147483647 - 1

\* The character codes the model uses.
ASCII ==
    [NL |-> 10, SP |-> 32, PLUS |-> 43, MINUS |-> 45, ZERO |-> 48, NINE |-> 57,
     R |-> 82]

min(a, b) == IF a <= b THEN a ELSE b
max(a, b) == IF a >= b THEN a ELSE b

\* fn char_to_int
char_to_int(c) == c - ASCII.R

(***************************************************************************)
(* str::trim and str::parse::<i32>, as used on the 3-character count field *)
(***************************************************************************)
IsWhitespace(c) == c \in {9, 10, 11, 12, 13, 32}

RECURSIVE TrimStart(_)
TrimStart(s) ==
    IF s # <<>> /\ IsWhitespace(Head(s)) THEN TrimStart(Tail(s)) ELSE s

RECURSIVE TrimEnd(_)
TrimEnd(s) ==
    IF s # <<>> /\ IsWhitespace(s[Len(s)])
    THEN TrimEnd(SubSeq(s, 1, Len(s) - 1))
    ELSE s

trim(s) == TrimEnd(TrimStart(s))

IsDigit(c) == c \in ASCII.ZERO .. ASCII.NINE

RECURSIVE DigitsValue(_)
DigitsValue(ds) ==
    IF ds = <<>> THEN 0
    ELSE 10 * DigitsValue(SubSeq(ds, 1, Len(ds) - 1)) + (ds[Len(ds)] - ASCII.ZERO)

\* An optional sign, then at least one decimal digit and nothing else.  No
\* field of three characters leaves the range of i32.
parse_i32(s) ==
    IF s = <<>> THEN [ok |-> FALSE, val |-> 0]
    ELSE LET signed == s[1] \in {ASCII.PLUS, ASCII.MINUS}
             ds == IF signed THEN Tail(s) ELSE s
         IN  IF ds = <<>> \/ \E k \in 1 .. Len(ds) : ~IsDigit(ds[k])
             THEN [ok |-> FALSE, val |-> 0]
             ELSE [ok |-> TRUE,
                   val |-> IF s[1] = ASCII.MINUS THEN -DigitsValue(ds)
                           ELSE DigitsValue(ds)]

(***************************************************************************)
(* usize arithmetic on the two's-complement reading (see the head)         *)
(***************************************************************************)
\* u * k, k a small positive literal: overflows iff u >= 2^w / k, which among
\* the program's values is exactly the ones read as negative.
MulOverflows(u, k) == u < 0
\* k + u, k a small positive literal: overflows iff u >= 2^w - k.
AddOverflows(k, u) == u < 0 /\ k + u >= 0
\* u - k: overflows iff u < k as unsigned numbers.
SubOverflows(u, k) == u >= 0 /\ u < k
\* The unsigned comparison a < b.
ULess(a, b) ==
    IF (a < 0) = (b < 0) THEN a < b ELSE b < 0

(***************************************************************************)
(* fn line_to_hershey_glyph                                                *)
(***************************************************************************)
Ok(g) == [kind |-> "Ok", glyph |-> g]
Err(e) == [kind |-> "Err", err |-> e]
Panic == [kind |-> "panic"]
None == [kind |-> "none"]

\* let contents = &line[5..];
contents_of(line) == SubSeq(line, 6, Len(line))

\* The marker of line 116.
PenUp == <<ASCII.SP, ASCII.R>>

\* let pair = &contents[5 + (i * 2)..7 + (i * 2)];
pair_at(contents, i) == SubSeq(contents, 6 + i * 2, 7 + i * 2)

\* Lines 92-105: the outcome of the function's head, up to the first
\* statement of the loop.
DecodeHead(line, checks) ==
    IF Len(line) < 10 THEN Err("Invalid glyph data")
    ELSE LET contents == contents_of(line)
             parsed == parse_i32(trim(SubSeq(contents, 1, 3)))
             num_pairs == parsed.val - 1
             left == char_to_int(contents[4])
             right == char_to_int(contents[5])
         IN  IF ~parsed.ok THEN Err("ParseIntError")
             ELSE IF checks /\ (MulOverflows(num_pairs, 2)
                                \/ AddOverflows(5, num_pairs * 2))
             THEN Panic
             ELSE IF Len(contents) # 5 + num_pairs * 2
             THEN Err("Invalid glyph data")
             ELSE [kind |-> "loop", num_pairs |-> num_pairs,
                   left |-> left, right |-> right]

\* The loop's step with top and bottom taken from x.
WindowStep_ExtremaFromX(top, bottom, paths, path, pair) ==
    IF pair = PenUp /\ path # <<>>
    THEN [top |-> top, bottom |-> bottom,
          paths |-> Append(paths, path), path |-> <<>>]
    ELSE LET x == char_to_int(pair[1])
             y == char_to_int(pair[2])
         IN  [top |-> min(top, x), bottom |-> max(bottom, x),
              paths |-> paths, path |-> Append(path, [x |-> x, y |-> y])]

\* The loop's step without the test of line 116 for a non-empty stroke.
WindowStep_AlwaysClose(top, bottom, paths, path, pair) ==
    IF pair = PenUp
    THEN [top |-> top, bottom |-> bottom,
          paths |-> Append(paths, path), path |-> <<>>]
    ELSE LET x == char_to_int(pair[1])
             y == char_to_int(pair[2])
         IN  [top |-> min(top, y), bottom |-> max(bottom, y),
              paths |-> paths, path |-> Append(path, [x |-> x, y |-> y])]

\* Lines 114-127: one iteration of the loop.
WindowStep(top, bottom, paths, path, pair) ==
    IF pair = PenUp /\ path # <<>>
    THEN [top |-> top, bottom |-> bottom,
          paths |-> Append(paths, path), path |-> <<>>]
    ELSE LET x == char_to_int(pair[1])
             y == char_to_int(pair[2])
         IN  [top |-> min(top, y), bottom |-> max(bottom, y),
              paths |-> paths, path |-> Append(path, [x |-> x, y |-> y])]

\* Lines 130-132.
ClosePaths(paths, path) ==
    IF path # <<>> THEN Append(paths, path) ELSE paths

\* The glyph with top and bottom exchanged.
HersheyGlyph_Swapped(top, right, bottom, left, paths) ==
    [top |-> bottom, right |-> right, bottom |-> top, left |-> left,
     paths |-> paths]

\* Lines 134-140.
HersheyGlyph(top, right, bottom, left, paths) ==
    [top |-> top, right |-> right, bottom |-> bottom, left |-> left,
     paths |-> paths]

\* Lines 107-128: the loop from iteration i on, run to its end.
RECURSIVE RunLoop(_, _, _, _)
RunLoop(contents, num_pairs, i, st) ==
    IF i >= num_pairs THEN st
    ELSE RunLoop(contents, num_pairs, i + 1,
                 WindowStep(st.top, st.bottom, st.paths, st.path,
                            pair_at(contents, i)))

\* The whole function, as one value.
line_to_hershey_glyph(line, checks) ==
    LET h == DecodeHead(line, checks)
    IN  IF h.kind # "loop" THEN h
        ELSE LET st == RunLoop(contents_of(line), h.num_pairs, 0,
                               [top |-> I32_MAX, bottom |-> I32_MIN,
                                paths |-> <<>>, path |-> <<>>])
             IN  Ok(HersheyGlyph(st.top, h.right, st.bottom, h.left,
                                 ClosePaths(st.paths, st.path)))

(***************************************************************************)
(* impl HersheyFont                                                        *)
(***************************************************************************)
\* data.split('\n'): the pieces between the newlines, always at least one.
RECURSIVE split(_)
split(s) ==
    IF \A k \in 1 .. Len(s) : s[k] # ASCII.NL THEN <<s>>
    ELSE LET k == CHOOSE j \in 1 .. Len(s) :
                      s[j] = ASCII.NL /\ \A m \in 1 .. j - 1 : s[m] # ASCII.NL
         IN  <<SubSeq(s, 1, k - 1)>> \o split(SubSeq(s, k + 1, Len(s)))

\* No filter: the empty pieces are decoded too.
KeepLine_All(l) == TRUE

\* .filter(|(_, line)| !line.is_empty())
KeepLine(l) == l # <<>>

\* format!("Error parsing line {}", i + 1), i the index enumerate() gave
ParseError(e, i) ==
    [kind |-> "ParseError", source |-> e, msg |-> <<"Error parsing line ", i + 1>>]

RECURSIVE Flatten(_)
Flatten(ss) == IF ss = <<>> THEN <<>> ELSE Head(ss) \o Flatten(Tail(ss))

\* glyphs.iter().flat_map(|glyph| glyph.paths.clone()).flatten()
RECURSIVE points_iter(_)
points_iter(gs) ==
    IF gs = <<>> THEN <<>> ELSE Flatten(Head(gs).paths) \o points_iter(Tail(gs))

\* The closure with the glyph's bottom folded by min.
FoldStep_MinBottom(acc, edge) ==
    <<min(acc[1], edge.y), max(acc[2], edge.x), min(acc[3], edge.y),
      min(acc[4], edge.x)>>

\* The closure of the fold; the accumulator is (top, right, bottom, left).
FoldStep(acc, edge) ==
    <<min(acc[1], edge.y), max(acc[2], edge.x), max(acc[3], edge.y),
      min(acc[4], edge.x)>>

RECURSIVE fold(_, _)
fold(points, acc) ==
    IF points = <<>> THEN acc ELSE fold(Tail(points), FoldStep(acc, Head(points)))

\* Lines 55-78.
HersheyFont(gs) ==
    LET box == fold(points_iter(gs), <<I32_MAX, I32_MIN, I32_MIN, I32_MAX>>)
    IN  [top |-> box[1], right |-> box[2], bottom |-> box[3], left |-> box[4],
         glyphs |-> gs]

\* The index counted from '!' instead of ' '.
GlyphIndex_FromBang(c) == c - 33

\* (glyph as usize) - 32
GlyphIndex(c) == c - 32

\* fn get_glyph, of the character with code c
get_glyph(font, c, checks) ==
    IF checks /\ SubOverflows(c, 32) THEN [kind |-> "panic", char |-> c]
    ELSE LET index == GlyphIndex(c)
         IN  IF ULess(index, Len(font.glyphs))
             THEN [kind |-> "Ok", char |-> c, glyph |-> font.glyphs[index + 1]]
             ELSE [kind |-> "GlyphNotFound", char |-> c,
                   msg |-> <<"Glyph ", c, " not found in font">>]

(***************************************************************************)
(* The inputs                                                              *)
(***************************************************************************)
SeqsUpTo(S, n) == UNION {[1 .. k -> S] : k \in 0 .. n}

\* The five characters of the record index, "    1".
Prefix == <<32, 32, 32, 32, 49>>

\* "  0" "  1" "  2" "  3" "  4" "  5" " -1" "2  " "+3 " "  x" "   "
CountFields ==
    {<<32, 32, 48>>, <<32, 32, 49>>, <<32, 32, 50>>, <<32, 32, 51>>,
     <<32, 32, 52>>, <<32, 32, 53>>, <<32, 45, 49>>, <<50, 32, 32>>,
     <<43, 51, 32>>, <<32, 32, 120>>, <<32, 32, 32>>}

\* "MW" (left -5, right 5) and "WM" (left 5, right -5)
Headers == {<<77, 87>>, <<87, 77>>}

\* " R", "MW" = (-5, 5), "WI" = (5, -9)
Windows == {PenUp, <<77, 87>>, <<87, 73>>}

\* Nothing, or one character too many: "R".
Tails == {<<>>, <<82>>}

\* "", " ", "    1  1M" (nine characters) and the line of the tests,
\* "  720  3G][BIb".
OtherLines ==
    {<<>>, <<32>>, <<32, 32, 32, 32, 49, 32, 32, 49, 77>>,
     <<32, 32, 55, 50, 48, 32, 32, 51, 71, 93, 91, 66, 73, 98>>}

TestLines ==
    OtherLines \cup
    {Prefix \o f \o h \o Flatten(ws) \o t :
        f \in CountFields, h \in Headers, ws \in SeqsUpTo(Windows, MaxPairs),
        t \in Tails}

\* The lines of a font source:
\*   ""                     an empty line
\*   " "                    too short
\*   "    1  1MW"           no window
\*   "  720  3G][BIb"       one stroke of two points
\*   "    1  4WMMW RWI"     two strokes of one point, left > right
\*   "    1  2MW R"         a pen-up marker first
\*   "    1  0MW"           a count of 0
\*   "    1  3MWMW"         a count of 3 and one window
FontLines ==
    {<<>>, <<32>>,
     Prefix \o <<32, 32, 49, 77, 87>>,
     <<32, 32, 55, 50, 48, 32, 32, 51, 71, 93, 91, 66, 73, 98>>,
     Prefix \o <<32, 32, 52, 87, 77, 77, 87, 32, 82, 87, 73>>,
     Prefix \o <<32, 32, 50, 77, 87, 32, 82>>,
     Prefix \o <<32, 32, 48, 77, 87>>,
     Prefix \o <<32, 32, 51, 77, 87, 77, 87>>}

RECURSIVE Join(_)
Join(ls) ==
    IF Len(ls) = 1 THEN ls[1] ELSE ls[1] \o <<ASCII.NL>> \o Join(Tail(ls))

FontSources ==
    {Join(ls) : ls \in SeqsUpTo(FontLines, MaxLines) \ {<<>>}}

\* '\n', the character before ' ', ' ' ... '%', 'A'
QueryChars == {10, 31, 32, 33, 34, 35, 36, 37, 65}

(***************************************************************************)
(* The state machine                                                       *)
(***************************************************************************)
VARIABLES
    overflow_checks,  \* the build: TRUE panics on overflow, FALSE wraps
    caller,           \* "test": line_to_hershey_glyph called on its own;
                      \* "new": HersheyFont::new called
    pc,               \* where the program is
    data,             \* the argument of HersheyFont::new
    lines,            \* data.split('\n')
    idx,              \* the index enumerate() gives the next piece
    glyphs,           \* the glyphs collected so far
    result,           \* what HersheyFont::new returned
    lookup,           \* what the last get_glyph returned
    line,             \* the argument of line_to_hershey_glyph
    num_pairs, left, right, i, top, bottom, paths, path,  \* its locals
    ret               \* what it returned

font_vars == <<data, lines, idx, glyphs, result, lookup>>
loop_vars == <<num_pairs, left, right, i, top, bottom, paths, path>>
vars == <<overflow_checks, caller, pc, font_vars, line, loop_vars, ret>>

InitLocals ==
    /\ num_pairs = 0 /\ left = 0 /\ right = 0 /\ i = 0
    /\ top = I32_MAX /\ bottom = I32_MIN /\ paths = <<>> /\ path = <<>>
    /\ ret = None

\* A test calls line_to_hershey_glyph (lines 187, 203).
InitTest ==
    /\ caller = "test" /\ pc = "decode"
    /\ line \in TestLines
    /\ data = <<>> /\ lines = <<>>

\* A caller calls HersheyFont::new.
InitNew ==
    /\ caller = "new" /\ pc = "new"
    /\ data \in FontSources
    /\ line = <<>> /\ lines = <<>>

Init ==
    /\ overflow_checks \in BOOLEAN
    /\ InitTest \/ InitNew
    /\ idx = 0 /\ glyphs = <<>> /\ result = None /\ lookup = None
    /\ InitLocals

\* Line 43: the split.
NewSplit ==
    /\ pc = "new"
    /\ lines' = split(data)
    /\ pc' = "iter"
    /\ UNCHANGED <<overflow_checks, caller, data, idx, glyphs, result, lookup,
                   line, loop_vars, ret>>

\* Line 45: the filter drops an empty piece; enumerate() has counted it.
NewFilter ==
    /\ pc = "iter" /\ idx < Len(lines)
    /\ ~KeepLine(lines[idx + 1])
    /\ idx' = idx + 1
    /\ UNCHANGED <<overflow_checks, caller, pc, data, lines, glyphs, result,
                   lookup, line, loop_vars, ret>>

\* Line 46: the map calls line_to_hershey_glyph on a piece the filter kept.
NewMap ==
    /\ pc = "iter" /\ idx < Len(lines)
    /\ KeepLine(lines[idx + 1])
    /\ line' = lines[idx + 1]
    /\ ret' = None
    /\ pc' = "decode"
    /\ UNCHANGED <<overflow_checks, caller, font_vars, loop_vars>>

\* Lines 92-111.  A panic unwinds through the caller; an error returns.
DecodeHeader ==
    /\ pc = "decode"
    /\ LET h == DecodeHead(line, overflow_checks)
       IN  IF h.kind = "loop"
           THEN /\ num_pairs' = h.num_pairs
                /\ left' = h.left /\ right' = h.right
                /\ top' = I32_MAX /\ bottom' = I32_MIN
                /\ paths' = <<>> /\ path' = <<>>
                /\ i' = 0
                /\ pc' = "loop"
                /\ UNCHANGED ret
           ELSE /\ ret' = h
                /\ pc' = IF h.kind = "panic" THEN "panicked"
                         ELSE IF caller = "new" THEN "returned" ELSE "done"
                /\ UNCHANGED loop_vars
    /\ UNCHANGED <<overflow_checks, caller, font_vars, line>>

\* Lines 113-128: one iteration.
DecodeWindow ==
    /\ pc = "loop" /\ i < num_pairs
    /\ LET st == WindowStep(top, bottom, paths, path,
                            pair_at(contents_of(line), i))
       IN  /\ top' = st.top /\ bottom' = st.bottom
           /\ paths' = st.paths /\ path' = st.path
    /\ i' = i + 1
    /\ UNCHANGED <<overflow_checks, caller, pc, font_vars, line, num_pairs,
                   left, right, ret>>

\* Lines 130-140: the loop is over.
DecodeFinish ==
    /\ pc = "loop" /\ i >= num_pairs
    /\ paths' = ClosePaths(paths, path)
    /\ ret' = Ok(HersheyGlyph(top, right, bottom, left, paths'))
    /\ pc' = IF caller = "new" THEN "returned" ELSE "done"
    /\ UNCHANGED <<overflow_checks, caller, font_vars, line, num_pairs, left,
                   right, i, top, bottom, path>>

\* Line 47: the glyph is collected.
NewMapOk ==
    /\ pc = "returned" /\ ret.kind = "Ok"
    /\ glyphs' = Append(glyphs, ret.glyph)
    /\ idx' = idx + 1
    /\ pc' = "iter"
    /\ UNCHANGED <<overflow_checks, caller, data, lines, result, lookup, line,
                   loop_vars, ret>>

\* Lines 48-53: the first error ends the collect, and `?` returns it.
NewMapErr ==
    /\ pc = "returned" /\ ret.kind = "Err"
    /\ result' = ParseError(ret.err, idx)
    /\ pc' = "done"
    /\ UNCHANGED <<overflow_checks, caller, data, lines, idx, glyphs, lookup,
                   line, loop_vars, ret>>

\* Lines 55-78: every piece is consumed.
NewFold ==
    /\ pc = "iter" /\ idx >= Len(lines)
    /\ result' = [kind |-> "Ok", font |-> HersheyFont(glyphs)]
    /\ pc' = "done"
    /\ UNCHANGED <<overflow_checks, caller, data, lines, idx, glyphs, lookup,
                   line, loop_vars, ret>>

\* Lines 81-88: a lookup in the font that new returned.
GetGlyph ==
    /\ pc = "done" /\ caller = "new" /\ result.kind = "Ok"
    /\ \E c \in QueryChars :
          /\ lookup' = get_glyph(result.font, c, overflow_checks)
          /\ pc' = IF lookup'.kind = "panic" THEN "panicked" ELSE "done"
    /\ UNCHANGED <<overflow_checks, caller, data, lines, idx, glyphs, result,
                   line, loop_vars, ret>>

Next ==
    \/ NewSplit
    \/ NewFilter
    \/ NewMap
    \/ DecodeHeader
    \/ DecodeWindow
    \/ DecodeFinish
    \/ NewMapOk
    \/ NewMapErr
    \/ NewFold
    \/ GetGlyph

Spec == Init /\ [][Next]_vars

(***************************************************************************)
(* What the claims speak of                                                *)
(***************************************************************************)
SetOf(seq) == {seq[k] : k \in 1 .. Len(seq)}
MinOf(S) == CHOOSE m \in S : \A n \in S : m <= n
MaxOf(S) == CHOOSE m \in S : \A n \in S : m >= n

\* The points of a list of strokes, and of a list of glyphs.
PointsOf(ps) == UNION {SetOf(ps[k]) : k \in 1 .. Len(ps)}
FontPoints(gs) == UNION {PointsOf(gs[k].paths) : k \in 1 .. Len(gs)}

\* line_to_hershey_glyph has returned or panicked.
DecoderEnded == ret.kind # "none"
\* HersheyFont::new has returned, or the program has panicked.
NewEnded == caller = "new" /\ pc \in {"done", "panicked"}

\* The window the loop is at.
pair == pair_at(contents_of(line), i)

\* The count field of the line, parsed.
CountField == parse_i32(trim(SubSeq(contents_of(line), 1, 3)))

\* The non-empty lines of the source, in order.
NonEmptyLines == SelectSeq(split(data), LAMBDA l : l # <<>>)
Decoded(l) == line_to_hershey_glyph(l, overflow_checks)
\* The 1-based positions, in the unfiltered split, of the non-empty lines
\* that do not decode.
FailingPositions ==
    {k \in 1 .. Len(split(data)) :
        split(data)[k] # <<>> /\ Decoded(split(data)[k]).kind # "Ok"}

\* C1 (as claimed): a " R" window met while the in-progress stroke is empty
\* appends no point, creates no stroke and leaves top and bottom as they are.
C1_MarkerOnEmptyStrokeIgnored ==
    [][(pc = "loop" /\ i < num_pairs /\ pair = PenUp /\ path = <<>>)
        => (path' = path /\ paths' = paths /\ top' = top /\ bottom' = bottom)]_vars

\* C2 (as claimed): get_glyph(c) returns GlyphNotFound, and does not crash,
\* whenever code(c) - 32 is negative or at least the number of glyphs.
C2_OutOfRangeIsGlyphNotFound ==
    (/\ lookup.kind # "none"
     /\ \/ lookup.char - 32 < 0
        \/ lookup.char - 32 >= Len(result.font.glyphs))
    => lookup.kind = "GlyphNotFound"

\* C3 (as claimed): a source with no non-empty line (no character but
\* newlines) makes HersheyFont::new fail with ParseError.
C3_EmptySourceFails ==
    (NewEnded /\ \A k \in 1 .. Len(data) : data[k] = ASCII.NL)
    => result.kind = "ParseError"

\* C3 (amended): a source with no non-empty line makes HersheyFont::new
\* return a font with zero glyphs and the sentinel box, never a ParseError.
C3_EmptySourceGivesEmptyFont ==
    (NewEnded /\ \A k \in 1 .. Len(data) : data[k] = ASCII.NL)
    => /\ result.kind = "Ok"
       /\ result.font = [top |-> I32_MAX, right |-> I32_MIN, bottom |-> I32_MIN,
                         left |-> I32_MAX, glyphs |-> <<>>]

C3_Witness ==
    NewEnded /\ data = <<>> /\ result.kind = "Ok"

\* C4 (as claimed): a line of at least 10 characters whose count field
\* parses as total_pairs and whose content length is not
\* 5 + (total_pairs - 1) * 2 gets the error "Invalid glyph data": no glyph,
\* no abort.
C4_MismatchIsInvalidGlyphData ==
    (/\ DecoderEnded
     /\ Len(line) >= 10
     /\ CountField.ok
     /\ Len(contents_of(line)) # 5 + (CountField.val - 1) * 2)
    => ret = Err("Invalid glyph data")

\* C5 (as claimed): when some non-empty line does not decode,
\* HersheyFont::new returns ParseError, and the message names the 1-based
\* position, empty lines counted, of the first such line.
C5_FirstFailingLineReported ==
    (NewEnded /\ FailingPositions # {})
    => /\ result.kind = "ParseError"
       /\ result.msg = <<"Error parsing line ", MinOf(FailingPositions)>>

\* C6: when every non-empty line decodes, the font has as many glyphs as the
\* source has non-empty lines, and get_glyph(c) with
\* 32 <= code(c) < 32 + glyph count returns the glyph decoded from the
\* (code(c) - 32 + 1)-th non-empty line.
C6_GlyphTable ==
    (NewEnded /\ \A k \in 1 .. Len(NonEmptyLines) : Decoded(NonEmptyLines[k]).kind = "Ok")
    => /\ result.kind = "Ok"
       /\ Len(result.font.glyphs) = Len(NonEmptyLines)
       /\ (/\ lookup.kind # "none"
           /\ 32 <= lookup.char
           /\ lookup.char < 32 + Len(NonEmptyLines))
          => /\ lookup.kind = "Ok"
             /\ lookup.glyph = Decoded(NonEmptyLines[lookup.char - 32 + 1]).glyph

\* '!' is found in a font of at least two glyphs whose source has an empty
\* line before its second non-empty one.
C6_Witness ==
    /\ NewEnded /\ lookup.kind = "Ok" /\ lookup.char = 33
    /\ split(data)[2] = <<>>
    /\ lookup.glyph # result.font.glyphs[1]

\* C7: the font's (top, right, bottom, left) is (min y, max x, max y, min x)
\* over every point of every path of every glyph, the glyphs' header left and
\* right not included; a font without any point has
\* (i32::MAX, i32::MIN, i32::MIN, i32::MAX).
C7_FontBox ==
    (caller = "new" /\ result.kind = "Ok")
    => LET f == result.font
           P == FontPoints(f.glyphs)
           xs == {p.x : p \in P}
           ys == {p.y : p \in P}
       IN  IF P = {}
           THEN <<f.top, f.right, f.bottom, f.left>>
                    = <<I32_MAX, I32_MIN, I32_MIN, I32_MAX>>
           ELSE <<f.top, f.right, f.bottom, f.left>>
                    = <<MinOf(ys), MaxOf(xs), MaxOf(ys), MinOf(xs)>>

\* A font of at least two glyphs with points, one of them with a header left
\* of every point of the font.
C7_Witness ==
    /\ caller = "new" /\ result.kind = "Ok"
    /\ Cardinality({k \in 1 .. Len(result.font.glyphs) :
                        result.font.glyphs[k].paths # <<>>}) >= 2
    /\ \E k \in 1 .. Len(result.font.glyphs) :
          result.font.glyphs[k].left < result.font.left

\* C8 (as claimed): a returned glyph, and a returned font, with at least one
\* point has top <= bottom and left <= right.
C8_BoxesOrdered ==
    /\ (ret.kind = "Ok" /\ ret.glyph.paths # <<>>)
       => (ret.glyph.top <= ret.glyph.bottom /\ ret.glyph.left <= ret.glyph.right)
    /\ (caller = "new" /\ result.kind = "Ok" /\ FontPoints(result.font.glyphs) # {})
       => (result.font.top <= result.font.bottom
           /\ result.font.left <= result.font.right)

\* C8 (amended): a returned glyph with at least one point has top <= bottom
\* (its left and right are the header's, in either order); a returned font
\* with at least one point has top <= bottom and left <= right.
C8_ExtremaOrdered ==
    /\ (ret.kind = "Ok" /\ ret.glyph.paths # <<>>)
       => ret.glyph.top <= ret.glyph.bottom
    /\ (caller = "new" /\ result.kind = "Ok" /\ FontPoints(result.font.glyphs) # {})
       => (result.font.top <= result.font.bottom
           /\ result.font.left <= result.font.right)

\* A font with points, its last glyph with points and a header whose left is
\* greater than its right.
C8_Witness ==
    /\ caller = "new" /\ result.kind = "Ok"
    /\ ret.kind = "Ok" /\ ret.glyph.paths # <<>>
    /\ ret.glyph.left > ret.glyph.right
    /\ ret.glyph.top < ret.glyph.bottom

\* C9: the glyph's top is the least and its bottom the greatest y of the
\* points stored in its paths, in the loop (the in-progress stroke counted)
\* and in the glyph returned; without a point they are i32::MAX and
\* i32::MIN, and a glyph of num_pairs = 0 has no path.
C9_GlyphExtrema ==
    LET Extrema(P) ==
            IF P = {} THEN <<I32_MAX, I32_MIN>>
            ELSE <<MinOf({p.y : p \in P}), MaxOf({p.y : p \in P})>>
    IN  /\ pc = "loop" => <<top, bottom>> = Extrema(PointsOf(paths) \cup SetOf(path))
        /\ ret.kind = "Ok"
           => /\ <<ret.glyph.top, ret.glyph.bottom>> = Extrema(PointsOf(ret.glyph.paths))
              /\ num_pairs = 0
                 => ret.glyph = HersheyGlyph(I32_MAX, right, I32_MIN, left, <<>>)

\* A glyph of two strokes or more is returned, with points of several y.
C9_Witness ==
    /\ ret.kind = "Ok" /\ Len(ret.glyph.paths) >= 2
    /\ ret.glyph.top < 0 /\ ret.glyph.bottom > 0

\* C10: no stroke stored in paths is empty, at any step of the loop and in
\* the glyph returned; every window counted so far has stored a point or
\* closed a stroke; every window that is not " R" is a stored point, in the
\* order of the windows; and the glyph returned holds the stored strokes and
\* then the in-progress one, if it has a point.
C10_StoredStrokes ==
    LET Stored(ps) == \A k \in 1 .. Len(ps) : ps[k] # <<>>
        Marker == [x |-> char_to_int(ASCII.SP), y |-> 0]
        Decode(w) == [x |-> w[1] - ASCII.R, y |-> w[2] - ASCII.R]
        Plain(n) ==
            SelectSeq([k \in 1 .. n |-> pair_at(contents_of(line), k - 1)],
                      LAMBDA w : w # PenUp)
        Kept(ps) == SelectSeq(Flatten(ps), LAMBDA p : p # Marker)
    IN  /\ Stored(paths)
        /\ pc = "loop"
           => /\ Len(Flatten(paths)) + Len(path) + Len(paths) = i
              /\ Kept(paths \o <<path>>) = [k \in 1 .. Len(Plain(i)) |-> Decode(Plain(i)[k])]
        /\ ret.kind = "Ok"
           => /\ Stored(ret.glyph.paths)
              /\ Kept(ret.glyph.paths)
                   = [k \in 1 .. Len(Plain(num_pairs)) |-> Decode(Plain(num_pairs)[k])]
              /\ path # <<>> => ret.glyph.paths[Len(ret.glyph.paths)] = path

\* A glyph is returned for a point, " R", " R": consecutive markers, the last
\* one trailing.
C10_Witness ==
    /\ ret.kind = "Ok" /\ num_pairs = 3
    /\ pair_at(contents_of(line), 0) # PenUp
    /\ pair_at(contents_of(line), 1) = PenUp
    /\ pair_at(contents_of(line), 2) = PenUp

=============================================================================
